---- MODULE Spec2Model ----
(***************************************************************************)
(* A model of the CHIP-8 interpreter of src/src/main.rs: the Chip8 struct, *)
(* its opcode handlers, and emulate_cycle (fetch, decode, execute, apply   *)
(* the program-counter instruction, tick the timers).                      *)
(*                                                                         *)
(* SpecFetch runs load_game and emulate_cycle whole, the instruction word  *)
(* being what lines 96-98 compute from memory.  Spec, SpecAlu, SpecDeep   *)
(* and SpecLifo run the same cycle with the instruction word as an input, which is how  *)
(* the handlers are reached with every opcode family (main_tests.rs calls  *)
(* the handlers directly, on states it builds from Chip8::default()); they *)
(* differ in the instruction words and the start states they draw.  The    *)
(* shell around the engine (setup_graphics, setup_input, draw_graphics,    *)
(* set_keys: each todo!()) is not modelled.                                *)
(***************************************************************************)
EXTENDS Integers, Sequences, FiniteSets, TLC

VARIABLES
    opcode, memory, v, i, pc, gfx, delay_timer, sound_timer, stack, key,
    draw_flag,      \* the fields of struct Chip8
    overflow_checks,\* the build panics on integer overflow (debug) or wraps (release)
    phase,          \* "constructed" until load_game was called, then "running"
    panicked,       \* "none", or the panic or error that ended the process
    beeps,          \* number of "BEEP" lines printed so far
    cycles,         \* number of cycles started
    done,           \* number of cycles that ran to their end
    boot,           \* the timers the machine started with
    calls,          \* per live stack entry: where and at which depth it was called
    last            \* the last cycle: the word it was given, the state it started
                    \* from, the call it returned from, what it handed to draw,
                    \* whether it printed BEEP, the Dxyn cycle right before it,
                    \* and the random byte it drew (-1 when it drew none)

vars == <<opcode, memory, v, i, pc, gfx, delay_timer, sound_timer, stack, key,
          draw_flag, overflow_checks, phase, panicked, beeps, cycles, done, boot, calls, last>>

----------------------------------------------------------------------------
(* Sizes and widths of the Chip8 struct *)

MemSize == 4096
NumRegs == 16
U8 == 256
U16 == 65536
StartPc == 512
RomLen == 246
StackCapacity == 16

----------------------------------------------------------------------------
(* Bit operations on naturals *)

RECURSIVE BitAnd(_, _)
BitAnd(a, b) ==
    IF a = 0 \/ b = 0 THEN 0
    ELSE (a % 2) * (b % 2) + 2 * BitAnd(a \div 2, b \div 2)

RECURSIVE BitOr(_, _)
BitOr(a, b) ==
    IF a = 0 THEN b
    ELSE IF b = 0 THEN a
    ELSE (IF a % 2 = 1 \/ b % 2 = 1 THEN 1 ELSE 0) + 2 * BitOr(a \div 2, b \div 2)

RECURSIVE BitXor(_, _)
BitXor(a, b) ==
    IF a = 0 THEN b
    ELSE IF b = 0 THEN a
    ELSE ((a + b) % 2) + 2 * BitXor(a \div 2, b \div 2)

RECURSIVE Pow2(_)
Pow2(n) == IF n = 0 THEN 1 ELSE 2 * Pow2(n - 1)

\* a << n on a w-bit unsigned value, n < w: the bits shifted out are dropped
Shl(a, n, width) == (a * Pow2(n)) % Pow2(width)

\* a >> n
Shr(a, n) == a \div Pow2(n)

----------------------------------------------------------------------------
(* ProgramCounterInstruction *)

NEXT == [kind |-> "NEXT", addr |-> 0]
SKIP == [kind |-> "SKIP", addr |-> 0]
GOTO(addr) == [kind |-> "GOTO", addr |-> addr]

----------------------------------------------------------------------------
(* The Chip8 value the handlers work on, and what a handler hands back:    *)
(* the Chip8 value as the handler left it, the program-counter instruction *)
(* it returned, and the panic it raised instead ("none" when it returned). *)

Self ==
    [opcode |-> opcode, memory |-> memory, v |-> v, i |-> i, pc |-> pc,
     gfx |-> gfx, delay_timer |-> delay_timer, sound_timer |-> sound_timer,
     stack |-> stack, key |-> key, draw_flag |-> draw_flag]

\* memory and gfx are arrays that start all zero: each is held as the
\* function from the indices of its non-zero cells to their values
ZeroArray == [a \in {} |-> 0]
ArrayRead(arr, a) == IF a \in DOMAIN arr THEN arr[a] ELSE 0

\* A default() whose pc is 0 and not 0x200
Chip8Default_pc0 ==
    [opcode |-> 0,
     memory |-> ZeroArray,
     v |-> [r \in 0..(NumRegs - 1) |-> 0],
     i |-> 0,
     pc |-> 0,
     gfx |-> ZeroArray,
     delay_timer |-> 0,
     sound_timer |-> 0,
     stack |-> <<>>,
     key |-> [k \in 0..(NumRegs - 1) |-> 0],
     draw_flag |-> FALSE]
Chip8Default ==
    [opcode |-> 0,
     memory |-> ZeroArray,
     v |-> [r \in 0..(NumRegs - 1) |-> 0],
     i |-> 0,
     pc |-> StartPc,
     gfx |-> ZeroArray,
     delay_timer |-> 0,
     sound_timer |-> 0,
     stack |-> <<>>,
     key |-> [k \in 0..(NumRegs - 1) |-> 0],
     draw_flag |-> FALSE]

\* What a handler leaves: the Chip8, the PC transition it returns or the
\* panic that ends it, and the arguments it handed to draw (none by default)
Returns(s, pci) == [self |-> s, pci |-> pci, panic |-> "none", handed |-> <<>>]
Panics(s, msg) == [self |-> s, pci |-> NEXT, panic |-> msg, handed |-> <<>>]

TodoPanic == "not yet implemented"
UnderflowPanic == "Error: trying to pop the stack but it is empty"
UnknownOpcodePanic == "Unknown opcode read"
IndexPanic == "index out of bounds"
ShiftPanic == "attempt to shift left with overflow"
AddPanic == "attempt to add with overflow"
IoError == "io::Error"

----------------------------------------------------------------------------
(* The unimplemented collaborators: each is todo!() *)

clear_screen(s) == Panics(s, TodoPanic)
draw(s, vx, vy, n) == [Panics(s, TodoPanic) EXCEPT !.handed = <<vx, vy, n>>]
key_pressed(s) == Panics(s, TodoPanic)

----------------------------------------------------------------------------
(* The opcode handlers *)

\* 00E0: clears the screen.  clear_screen() never returns.
op_0x00e0(s) == clear_screen(s)

\* A 00EE that takes address 0 when the stack is empty instead of panicking
op_0x00ee_unchecked(s) ==
    IF Len(s.stack) > 0
    THEN Returns([s EXCEPT !.stack = SubSeq(s.stack, 1, Len(s.stack) - 1)],
                 GOTO(s.stack[Len(s.stack)]))
    ELSE Returns(s, GOTO(0))

\* A 00EE that takes the oldest return address, not the newest
op_0x00ee_fifo(s) ==
    IF Len(s.stack) > 0
    THEN Returns([s EXCEPT !.stack = Tail(s.stack)], GOTO(Head(s.stack)))
    ELSE Panics(s, UnderflowPanic)
\* 00EE: returns from subroutine
op_0x00ee(s) ==
    IF Len(s.stack) > 0
    THEN Returns([s EXCEPT !.stack = SubSeq(s.stack, 1, Len(s.stack) - 1)],
                 GOTO(s.stack[Len(s.stack)]))
    ELSE Panics(s, UnderflowPanic)

\* A 1NNN that pushes PC before it jumps, as 2NNN does
op_0x1nnn_pushes(s, nnn) ==
    Returns([s EXCEPT !.stack = Append(s.stack, s.pc)], GOTO(nnn))
\* 1NNN: jumps to address NNN
op_0x1nnn(s, nnn) == Returns(s, GOTO(nnn))

\* 2NNN: calls subroutine at NNN
op_0x2nnn(s, nnn) ==
    Returns([s EXCEPT !.stack = Append(s.stack, s.pc)], GOTO(nnn))

\* 3XNN: skips the next instruction if VX equals NN
op_0x3xnn(s, x, nn) == Returns(s, IF s.v[x] = nn THEN SKIP ELSE NEXT)

\* A 4XNN that tests for equality, as 3XNN does
op_0x4xnn_eq(s, x, nn) == Returns(s, IF s.v[x] = nn THEN SKIP ELSE NEXT)

\* 4XNN: skips the next instruction if VX does not equal NN
op_0x4xnn(s, x, nn) == Returns(s, IF s.v[x] # nn THEN SKIP ELSE NEXT)

\* 5XY0: skips the next instruction if VX equals VY
op_0x5xy0(s, x, y) == Returns(s, IF s.v[x] = s.v[y] THEN SKIP ELSE NEXT)

\* A 6XNN that adds NN to VX, as 7XNN does, instead of loading it
op_0x6xnn_adds(s, x, nn) == Returns([s EXCEPT !.v[x] = (s.v[x] + nn) % U8], NEXT)
\* 6XNN: sets VX to NN
op_0x6xnn(s, x, nn) == Returns([s EXCEPT !.v[x] = nn], NEXT)

\* 7XNN: adds NN to VX
op_0x7xnn(s, x, nn) ==
    LET addend == s.v[x]
        augend == nn
    IN  Returns([s EXCEPT !.v[x] = (augend + addend) % U8], NEXT)

\* 8XY0: sets VX to the value of VY
op_0x8xy0(s, x, y) == Returns([s EXCEPT !.v[x] = s.v[y]], NEXT)

\* 8XY1: VX |= VY
op_0x8xy1(s, x, y) == Returns([s EXCEPT !.v[x] = BitOr(s.v[x], s.v[y])], NEXT)

\* 8XY2: VX &= VY
op_0x8xy2(s, x, y) == Returns([s EXCEPT !.v[x] = BitAnd(s.v[x], s.v[y])], NEXT)

\* 8XY3: VX ^= VY
op_0x8xy3(s, x, y) == Returns([s EXCEPT !.v[x] = BitXor(s.v[x], s.v[y])], NEXT)

\* An 8XY4 that adds in 8 bits, so that the carry is never seen
op_0x8xy4_late_carry(s, x, y) ==
    LET result == (s.v[x] + s.v[y]) % U8
        v1 == [s.v EXCEPT ![x] = result]
        v2 == [v1 EXCEPT ![15] = IF result > 255 THEN 1 ELSE 0]
    IN  Returns([s EXCEPT !.v = v2], NEXT)

\* 8XY4: adds VY to VX, VF is the carry.  v[x] is written first, v[0xF] second.
op_0x8xy4(s, x, y) ==
    LET result == s.v[x] + s.v[y]
        v1 == [s.v EXCEPT ![x] = result % U8]
        v2 == [v1 EXCEPT ![15] = IF result > 255 THEN 1 ELSE 0]
    IN  Returns([s EXCEPT !.v = v2], NEXT)

\* An 8XY5 whose flag is VX >= VY
op_0x8xy5_ge(s, x, y) ==
    LET result == (s.v[x] - s.v[y]) % U8
        v1 == [s.v EXCEPT ![15] = IF s.v[x] >= s.v[y] THEN 1 ELSE 0]
        v2 == [v1 EXCEPT ![x] = result]
    IN  Returns([s EXCEPT !.v = v2], NEXT)

\* 8XY5: VY is subtracted from VX.  The difference is computed first, then
\* v[0xF] is written from the registers as they still are, then v[x].
op_0x8xy5(s, x, y) ==
    LET result == (s.v[x] - s.v[y]) % U8
        v1 == [s.v EXCEPT ![15] = IF s.v[x] > s.v[y] THEN 1 ELSE 0]
        v2 == [v1 EXCEPT ![x] = result]
    IN  Returns([s EXCEPT !.v = v2], NEXT)

\* An 8XY6 that shifts VX first and takes the flag from the shifted value
op_0x8xy6_late_flag(s, x) ==
    LET v1 == [s.v EXCEPT ![x] = Shr(s.v[x], 1)]
        v2 == [v1 EXCEPT ![15] = BitAnd(v1[x], 1)]
    IN  Returns([s EXCEPT !.v = v2], NEXT)
\* 8XY6: VF is the least significant bit of VX, then VX is shifted right by 1.
\* v[x] is read again after v[0xF] was written.
op_0x8xy6(s, x) ==
    LET v1 == [s.v EXCEPT ![15] = BitAnd(s.v[x], 1)]
        v2 == [v1 EXCEPT ![x] = Shr(v1[x], 1)]
    IN  Returns([s EXCEPT !.v = v2], NEXT)

\* 8XY7: VX is VY minus VX.  v[0xF] is written first, and the difference is
\* computed from the registers as they are after that write.
op_0x8xy7(s, x, y) ==
    LET v1 == [s.v EXCEPT ![15] = IF s.v[y] > s.v[x] THEN 1 ELSE 0]
        result == (v1[y] - v1[x]) % U8
        v2 == [v1 EXCEPT ![x] = result]
    IN  Returns([s EXCEPT !.v = v2], NEXT)

\* 8XYE: VF is the most significant bit of VX, then VX is shifted left by 1.
\* v[x] is read again after v[0xF] was written.
op_0x8xye(s, x) ==
    LET v1 == [s.v EXCEPT ![15] = Shr(BitAnd(s.v[x], 128), 7)]
        v2 == [v1 EXCEPT ![x] = Shl(v1[x], 1, 8)]
    IN  Returns([s EXCEPT !.v = v2], NEXT)

\* 9XY0: skips the next instruction if VX does not equal VY
op_0x9xy0(s, x, y) == Returns(s, IF s.v[x] # s.v[y] THEN SKIP ELSE NEXT)

\* ANNN: sets i to the address NNN
op_0xannn(s, nnn) == Returns([s EXCEPT !.i = nnn], NEXT)

\* BNNN: jumps to the address NNN plus V0 (a u16 sum, at most 0x10FE)
op_0xbnnn(s, nnn) == Returns(s, GOTO(s.v[0] + nnn))

\* A CXNN that stores the random byte without the mask
op_0xcxnn_unmasked(s, x, nn, random_u8) ==
    Returns([s EXCEPT !.v[x] = random_u8], NEXT)
\* CXNN: VX is a random byte AND NN; random_u8 is the byte rand::random() gave
op_0xcxnn(s, x, nn, random_u8) ==
    Returns([s EXCEPT !.v[x] = BitAnd(random_u8, nn)], NEXT)

\* DXYN: draws a sprite at (VX, VY).  draw() never returns.
op_0xdxyn(s, x, y, n) == draw(s, s.v[x], s.v[y], n)

\* EX9E: skips the next instruction if the key stored in VX is pressed.
\* key_pressed() never returns, so the comparison is never made.
op_0xex9e(s, x) == key_pressed(s)

\* EXA1: skips the next instruction if the key stored in VX is not pressed.
\* key_pressed() never returns, so the comparison is never made.
op_0xexa1(s, x) == key_pressed(s)

----------------------------------------------------------------------------
(* emulate_cycle *)

\* Lines 96-98: the instruction word read at pc.  memory[pc] is a u8 and is
\* shifted left by 8 as a u8: with overflow checks the shift panics, without
\* them the shift amount is taken modulo the width (8 % 8 = 0).
fetch(s, checks) ==
    IF s.pc >= MemSize THEN [panic |-> IndexPanic, word |-> 0]
    ELSE IF checks THEN [panic |-> ShiftPanic, word |-> 0]
    ELSE IF s.pc + 1 >= MemSize THEN [panic |-> IndexPanic, word |-> 0]
    ELSE LET opcode_first_byte == Shl(ArrayRead(s.memory, s.pc), 8 % 8, 8)
             opcode_second_byte == ArrayRead(s.memory, s.pc + 1)
         IN  [panic |-> "none", word |-> BitOr(opcode_first_byte, opcode_second_byte)]

\* Lines 99-109: the operand fields of a 16-bit instruction word.  A mask of
\* the low k bits is the remainder modulo 2^k, a right shift by k the
\* quotient by 2^k.
Nibble1(word) == word \div 4096           \* (opcode & 0xF000) >> 12
Nibble_x(word) == (word \div 256) % 16    \* (opcode & 0x0F00) >> 8
Nibble_y(word) == (word \div 16) % 16     \* (opcode & 0x00F0) >> 4
Field_nnn(word) == word % 4096            \* opcode & 0x0FFF
Field_nn(word) == word % 256              \* opcode & 0x00FF
Field_n(word) == word % 16                \* opcode & 0x000F

\* Lines 111-147: the handler an instruction word is dispatched to.  The 0
\* family is told apart by the low nibble alone, the 8 and E families by n,
\* and the 5 and 9 families are not told apart at all.
dispatch(s, random_u8) ==
    LET word == s.opcode
        nnn == Field_nnn(word)
        nn == Field_nn(word)
        n == Field_n(word)
        x == Nibble_x(word)
        y == Nibble_y(word)
        top == Nibble1(word)
    IN  CASE top = 0 ->
               (CASE Field_n(word) = 0 -> op_0x00e0(s)
                  [] Field_n(word) = 14 -> op_0x00ee(s)
                  [] OTHER -> Panics(s, UnknownOpcodePanic))
          [] top = 1 -> op_0x1nnn(s, nnn)
          [] top = 2 -> op_0x2nnn(s, nnn)
          [] top = 3 -> op_0x3xnn(s, x, nn)
          [] top = 4 -> op_0x4xnn(s, x, nn)
          [] top = 5 -> op_0x5xy0(s, x, y)
          [] top = 6 -> op_0x6xnn(s, x, nn)
          [] top = 7 -> op_0x7xnn(s, x, nn)
          [] top = 8 ->
               (CASE n = 0 -> op_0x8xy0(s, x, y)
                  [] n = 1 -> op_0x8xy1(s, x, y)
                  [] n = 2 -> op_0x8xy2(s, x, y)
                  [] n = 3 -> op_0x8xy3(s, x, y)
                  [] n = 4 -> op_0x8xy4(s, x, y)
                  [] n = 5 -> op_0x8xy5(s, x, y)
                  [] n = 6 -> op_0x8xy6(s, x)
                  [] n = 7 -> op_0x8xy7(s, x, y)
                  [] n = 14 -> op_0x8xye(s, x)
                  [] OTHER -> Panics(s, UnknownOpcodePanic))
          [] top = 9 -> op_0x9xy0(s, x, y)
          [] top = 10 -> op_0xannn(s, nnn)
          [] top = 11 -> op_0xbnnn(s, nnn)
          [] top = 12 -> op_0xcxnn(s, x, nn, random_u8)
          [] top = 13 -> op_0xdxyn(s, x, y, nn)
          [] top = 14 ->
               (CASE n = 14 -> op_0xex9e(s, x)
                  [] n = 1 -> op_0xexa1(s, x)
                  [] OTHER -> Panics(s, UnknownOpcodePanic))
          [] OTHER -> Panics(s, UnknownOpcodePanic)

\* pc += delta on a u16
AddPc(s, delta, checks) ==
    IF s.pc + delta >= U16 /\ checks
    THEN Panics(s, AddPanic)
    ELSE Returns([s EXCEPT !.pc = (s.pc + delta) % U16], NEXT)

\* Lines 149-153: the program-counter instruction is applied
apply_pc(s, pci, checks) ==
    CASE pci.kind = "NEXT" -> AddPc(s, 2, checks)
      [] pci.kind = "SKIP" -> AddPc(s, 4, checks)
      [] OTHER -> Returns([s EXCEPT !.pc = pci.addr], NEXT)

\* A delay timer decremented without the test for zero (wrapping)
tick_delay_wrapping(t) == (t - 1) % U8

\* Lines 155-157
tick_delay(t) == IF t > 0 THEN t - 1 ELSE t

\* Lines 158-163 (the BEEP line is Beeps below)
tick_sound(t) == IF t > 0 THEN t - 1 ELSE t

\* A BEEP on every tick of a running sound timer
Beeps_while_running(t) == t > 0
\* Lines 159-161: BEEP is printed when the sound timer is 1 at the tick
Beeps(t) == t > 0 /\ t = 1

\* Lines 98-163: the cycle from the moment the instruction word is known.
\* A panic leaves the Chip8 value as it was when the panic was raised.
decode_execute(s0, word, random_u8, checks) ==
    LET s == [s0 EXCEPT !.opcode = word]
        r == dispatch(s, random_u8)
        a == apply_pc(r.self, r.pci, checks)
    IN  IF r.panic # "none"
        THEN [self |-> r.self, panic |-> r.panic, beep |-> FALSE, handed |-> r.handed]
        ELSE IF a.panic # "none"
        THEN [self |-> a.self, panic |-> a.panic, beep |-> FALSE, handed |-> r.handed]
        ELSE [self |-> [a.self EXCEPT !.delay_timer = tick_delay(a.self.delay_timer),
                                      !.sound_timer = tick_sound(a.self.sound_timer)],
              panic |-> "none",
              beep |-> Beeps(a.self.sound_timer),
              handed |-> r.handed]

----------------------------------------------------------------------------
(* Bounds and inputs *)

MaxCycles == 2
MaxAluCycles == 1
MaxDeepCycles == 18
MaxLifoCycles == 6
MaxFileLen == 2

Word(a, b, c, d) == a * 4096 + b * 256 + c * 16 + d

Regs == {0, 1, 15}
Bytes == {0, 1, 128, 255}
Addrs == {516, 4095}
LifoAddrs == {768, 1280}
TimerPairs == {<<0, 0>>, <<1, 2>>, <<2, 1>>, <<255, 1>>, <<0, 255>>}
RandomBytes == {0, 85, 255}
RomBytes == {0, 1, 14, 32, 34, 96, 224, 238}

NoCall == [site |-> 0, depth |-> 0]

----------------------------------------------------------------------------
(* States *)

\* The machine holds the Chip8 value s; no cycle has run yet
Starts(s, ph) ==
    /\ opcode = s.opcode
    /\ memory = s.memory
    /\ v = s.v
    /\ i = s.i
    /\ pc = s.pc
    /\ gfx = s.gfx
    /\ delay_timer = s.delay_timer
    /\ sound_timer = s.sound_timer
    /\ stack = s.stack
    /\ key = s.key
    /\ draw_flag = s.draw_flag
    /\ phase = ph
    /\ panicked = "none"
    /\ beeps = 0
    /\ cycles = 0
    /\ done = 0
    /\ boot = [delay_timer |-> s.delay_timer, sound_timer |-> s.sound_timer]
    /\ calls = <<>>
    /\ last = [word |-> -1, pre |-> s, ret |-> NoCall, handed |-> <<>>,
               beeped |-> FALSE, drawn_on |-> <<>>, random_u8 |-> -1]

\* The machine takes the outcome res of a cycle that was given the word w;
\* random_u8 is the byte rand::random() gives when the cycle calls it
Commit(res, w, random_u8) ==
    LET called == res.panic = "none" /\ Nibble1(w) = 2
        returned == res.panic = "none" /\ Nibble1(w) = 0 /\ Field_n(w) = 14
    IN  /\ opcode' = res.self.opcode
        /\ memory' = res.self.memory
        /\ v' = res.self.v
        /\ i' = res.self.i
        /\ pc' = res.self.pc
        /\ gfx' = res.self.gfx
        /\ delay_timer' = res.self.delay_timer
        /\ sound_timer' = res.self.sound_timer
        /\ stack' = res.self.stack
        /\ key' = res.self.key
        /\ draw_flag' = res.self.draw_flag
        /\ panicked' = res.panic
        /\ beeps' = IF res.beep THEN beeps + 1 ELSE beeps
        /\ cycles' = cycles + 1
        /\ done' = IF res.panic = "none" THEN done + 1 ELSE done
        /\ calls' = IF called THEN Append(calls, [site |-> pc, depth |-> Len(stack)])
                    ELSE IF returned /\ Len(calls) > 0
                         THEN SubSeq(calls, 1, Len(calls) - 1)
                    ELSE calls
        /\ last' = [word |-> w, pre |-> Self,
                    ret |-> IF returned /\ Len(calls) > 0 THEN calls[Len(calls)]
                            ELSE NoCall,
                    handed |-> res.handed,
                    beeped |-> res.beep,
                    drawn_on |-> IF Nibble1(last.word) = 13
                                 THEN <<[word |-> last.word, pre |-> last.pre]>>
                                 ELSE <<>>,
                    random_u8 |-> IF Nibble1(w) = 12 THEN random_u8 ELSE -1]
        /\ UNCHANGED <<overflow_checks, phase, boot>>

\* One cycle of the loop of main, the instruction word w being given: the
\* reads of memory[pc] and memory[pc + 1] still have to be in bounds, and a
\* cycle that panics there decodes no word (recorded as -1)
Cycle(w, random_u8) ==
    /\ phase = "running"
    /\ panicked = "none"
    /\ IF pc + 1 >= MemSize
       THEN Commit([self |-> Self, panic |-> IndexPanic, beep |-> FALSE,
                    handed |-> <<>>], -1, random_u8)
       ELSE \E res \in {decode_execute(Self, w, random_u8, overflow_checks)} :
               Commit(res, w, random_u8)

----------------------------------------------------------------------------
(* Spec: control flow, timers and fatal errors.  The machine is            *)
(* Chip8::default() with V0, V1 and the timers set, built without overflow *)
(* checks (with them fetch panics before any word is decoded).             *)

Init ==
    /\ overflow_checks = FALSE
    /\ \E v0 \in {0, 1, 255}, v1 \in {0, 1}, t \in TimerPairs :
          Starts([Chip8Default EXCEPT !.v[0] = v0, !.v[1] = v1,
                                      !.delay_timer = t[1], !.sound_timer = t[2]],
                 "running")

Cls ==
    /\ cycles < MaxCycles
    /\ Cycle(Word(0, 0, 14, 0), 0)

Ret ==
    /\ cycles < MaxCycles
    /\ Cycle(Word(0, 0, 14, 14), 0)

Jump ==
    \E nnn \in Addrs :
        /\ cycles < MaxCycles
        /\ Cycle(Word(1, 0, 0, 0) + nnn, 0)

Call ==
    \E nnn \in Addrs :
        /\ cycles < MaxCycles
        /\ Cycle(Word(2, 0, 0, 0) + nnn, 0)

SkipEqImm ==
    \E x \in {0, 1}, nn \in {0, 255} :
        /\ cycles < MaxCycles
        /\ Cycle(Word(3, x, 0, 0) + nn, 0)

SkipNeImm ==
    \E x \in {0, 1}, nn \in {0, 255} :
        /\ cycles < MaxCycles
        /\ Cycle(Word(4, x, 0, 0) + nn, 0)

SkipEqReg ==
    \E x \in {0, 1}, y \in {0, 1} :
        /\ cycles < MaxCycles
        /\ Cycle(Word(5, x, y, 0), 0)

SkipNeReg ==
    \E x \in {0, 1}, y \in {0, 1} :
        /\ cycles < MaxCycles
        /\ Cycle(Word(9, x, y, 0), 0)

LoadI ==
    \E nnn \in Addrs :
        /\ cycles < MaxCycles
        /\ Cycle(Word(10, 0, 0, 0) + nnn, 0)

JumpV0 ==
    \E nnn \in Addrs :
        /\ cycles < MaxCycles
        /\ Cycle(Word(11, 0, 0, 0) + nnn, 0)

Draw ==
    \E n \in {0, 1, 15} :
        /\ cycles < MaxCycles
        /\ Cycle(Word(13, 0, 1, n), 0)

SkipKey ==
    /\ cycles < MaxCycles
    /\ Cycle(Word(14, 0, 9, 14), 0)

SkipNoKey ==
    /\ cycles < MaxCycles
    /\ Cycle(Word(14, 0, 10, 1), 0)

\* Instruction words that are in no row of the opcode table
OffTableWords ==
    {Word(0, 0, 0, 1), Word(0, 1, 2, 0), Word(0, 1, 2, 14), Word(5, 0, 1, 1),
     Word(9, 0, 1, 1), Word(8, 0, 1, 8), Word(14, 0, 0, 14), Word(14, 0, 0, 1),
     Word(14, 0, 0, 0), Word(15, 0, 0, 7)}

OffTable ==
    \E w \in OffTableWords :
        /\ cycles < MaxCycles
        /\ Cycle(w, 0)

Next ==
    \/ Cls \/ Ret \/ Jump \/ Call \/ SkipEqImm \/ SkipNeImm \/ SkipEqReg
    \/ SkipNeReg \/ LoadI \/ JumpV0 \/ Draw \/ SkipKey \/ SkipNoKey \/ OffTable

Spec == Init /\ [][Next]_vars

----------------------------------------------------------------------------
(* SpecAlu: the register opcodes, from every choice of V0, V1 and VF *)

InitAlu ==
    /\ overflow_checks = FALSE
    /\ \E v0 \in Bytes, v1 \in Bytes, vf \in Bytes :
          Starts([Chip8Default EXCEPT !.v[0] = v0, !.v[1] = v1, !.v[15] = vf],
                 "running")

LoadImm ==
    \E x \in Regs, nn \in Bytes :
        /\ cycles < MaxAluCycles
        /\ Cycle(Word(6, x, 0, 0) + nn, 0)

AddImm ==
    \E x \in Regs, nn \in Bytes :
        /\ cycles < MaxAluCycles
        /\ Cycle(Word(7, x, 0, 0) + nn, 0)

Alu ==
    \E x \in Regs, y \in Regs, n \in {0, 1, 2, 3, 4, 5, 6, 7, 14} :
        /\ cycles < MaxAluCycles
        /\ Cycle(Word(8, x, y, n), 0)

Rand ==
    \E x \in Regs, nn \in Bytes, r \in RandomBytes :
        /\ cycles < MaxAluCycles
        /\ Cycle(Word(12, x, 0, 0) + nn, r)

NextAlu == LoadImm \/ AddImm \/ Alu \/ Rand

SpecAlu == InitAlu /\ [][NextAlu]_vars

----------------------------------------------------------------------------
(* SpecDeep: calls and returns, as deep as the cycles allow *)

InitDeep ==
    /\ overflow_checks = FALSE
    /\ Starts(Chip8Default, "running")

DeepCall ==
    /\ cycles < MaxDeepCycles
    /\ Cycle(Word(2, 3, 0, 0), 0)

DeepRet ==
    /\ cycles < MaxDeepCycles
    /\ Cycle(Word(0, 0, 14, 14), 0)

NextDeep == DeepCall \/ DeepRet

SpecDeep == InitDeep /\ [][NextDeep]_vars

----------------------------------------------------------------------------
(* SpecLifo: calls to two subroutines and returns, nested *)

InitLifo ==
    /\ overflow_checks = FALSE
    /\ Starts(Chip8Default, "running")

LifoCall ==
    \E nnn \in LifoAddrs :
        /\ cycles < MaxLifoCycles
        /\ Cycle(Word(2, 0, 0, 0) + nnn, 0)

LifoRet ==
    /\ cycles < MaxLifoCycles
    /\ Cycle(Word(0, 0, 14, 14), 0)

NextLifo == LifoCall \/ LifoRet

SpecLifo == InitLifo /\ [][NextLifo]_vars

----------------------------------------------------------------------------
(* SpecFetch: Chip8::default(), load_game(), then emulate_cycle() in a loop *)

\* The contents pong.rom may have: up to MaxFileLen bytes
RECURSIVE SeqsUpTo(_, _)
SeqsUpTo(S, n) ==
    IF n = 0 THEN {<<>>}
    ELSE LET shorter == SeqsUpTo(S, n - 1)
         IN  shorter \cup {Append(q, b) : q \in {r \in shorter : Len(r) = n - 1}, b \in S}

Files == SeqsUpTo(RomBytes, MaxFileLen)

\* Lines 87-91: the buffer starts all zero, takes the bytes read, and is
\* copied whole to memory[512..]
load_game_copy(mem, file) ==
    LET buffer(k) == IF k < Len(file) /\ k < RomLen THEN file[k + 1] ELSE 0
        target == StartPc .. (StartPc + RomLen - 1)
        kept == {a \in DOMAIN mem : a \notin target}
        written == {a \in target : buffer(a - StartPc) # 0}
    IN  [a \in kept \cup written |->
            IF a \in target THEN buffer(a - StartPc) ELSE mem[a]]

InitFetch ==
    /\ overflow_checks \in BOOLEAN
    /\ Starts(Chip8Default, "constructed")

\* load_game: File::open or read fails and main returns the error, or the
\* file's bytes are copied
load_game ==
    /\ phase = "constructed"
    /\ panicked = "none"
    /\ \E file \in Files, opened \in BOOLEAN :
          IF ~opened
          THEN /\ panicked' = IoError
               /\ UNCHANGED <<memory, phase>>
          ELSE /\ memory' = load_game_copy(memory, file)
               /\ phase' = "running"
               /\ UNCHANGED panicked
    /\ UNCHANGED <<opcode, v, i, pc, gfx, delay_timer, sound_timer, stack, key,
                   draw_flag, overflow_checks, beeps, cycles, done, boot, calls, last>>

\* emulate_cycle, lines 95-164
emulate_cycle ==
    /\ phase = "running"
    /\ panicked = "none"
    /\ cycles < MaxCycles
    /\ \E random_u8 \in RandomBytes :
          LET f == fetch(Self, overflow_checks)
          IN  IF f.panic # "none"
              THEN Commit([self |-> Self, panic |-> f.panic, beep |-> FALSE,
                           handed |-> <<>>], -1, random_u8)
              ELSE \E res \in {decode_execute(Self, f.word, random_u8, overflow_checks)} :
                      Commit(res, f.word, random_u8)

NextFetch == load_game \/ emulate_cycle

SpecFetch == InitFetch /\ [][NextFetch]_vars

----------------------------------------------------------------------------
(* What the last cycle did *)

\* The last cycle decoded an instruction word
Decoded == last.word # -1

\* The last cycle decoded a word and ran to its end
Completed == Decoded /\ panicked = "none"

LastX == Nibble_x(last.word)
LastY == Nibble_y(last.word)
LastNN == Field_nn(last.word)

\* The last cycle was given a word of the pattern 8xyn for this n
LastIs8xy(n) == Decoded /\ Nibble1(last.word) = 8 /\ Field_n(last.word) = n

Max0(n) == IF n > 0 THEN n ELSE 0

\* The Chip8 fields other than opcode are what they were before the last cycle
VmUntouched ==
    /\ pc = last.pre.pc
    /\ v = last.pre.v
    /\ i = last.pre.i
    /\ stack = last.pre.stack
    /\ memory = last.pre.memory
    /\ gfx = last.pre.gfx
    /\ delay_timer = last.pre.delay_timer
    /\ sound_timer = last.pre.sound_timer

\* The rows of the opcode table
InOpcodeTable(w) ==
    LET top == w \div 4096
        n == w % 16
    IN  \/ w = 224 \/ w = 238
        \/ top \in {1, 2, 3, 4, 6, 7, 10, 11, 12, 13}
        \/ top \in {5, 9} /\ n = 0
        \/ top = 8 /\ n \in {0, 1, 2, 3, 4, 5, 6, 7, 14}
        \/ top = 14 /\ w % 256 \in {158, 161}

----------------------------------------------------------------------------
(* Claims *)

\* C1: after a cycle that executes 00EE, PC is the address of the matching
\* 2nnn plus 2 and the stack is as deep as it was before that 2nnn.
C1_CallReturnRoundTrip ==
    (Completed /\ last.word = 238) =>
        /\ pc = last.ret.site + 2
        /\ Len(stack) = last.ret.depth

\* C2: the call stack never holds more than 16 return addresses; a 2nnn on
\* a full stack is fatal.
C2_StackBounded ==
    /\ Len(stack) <= StackCapacity
    /\ (Decoded /\ Nibble1(last.word) = 2 /\ Len(last.pre.stack) = StackCapacity)
          => panicked # "none"

\* C3: a 00EE on an empty stack is fatal, the engine halts, and PC, the
\* registers, I, the stack, memory, the framebuffer and the timers are what
\* they were before the cycle.
C3_UnderflowIsFatal ==
    (Decoded /\ last.word = 238 /\ last.pre.stack = <<>>) =>
        /\ panicked = UnderflowPanic
        /\ VmUntouched
        /\ ~ENABLED Next

C3_Witness ==
    /\ Decoded /\ last.word = 238 /\ last.pre.stack = <<>>
    /\ panicked = UnderflowPanic
    /\ last.pre.delay_timer = 254 /\ delay_timer = 254
    /\ cycles = 2 /\ done = 1

\* C4: a word in no row of the opcode table ends its cycle in a fatal
\* error (any panic is taken for it), and no handler has run: PC is not
\* changed and the timers do not tick.
C4_OffTableIsDecodeError ==
    (Decoded /\ ~InOpcodeTable(last.word)) =>
        /\ panicked # "none"
        /\ VmUntouched

\* C5: the word a cycle decodes is memory[PC] * 256 + memory[PC + 1].
C5_FetchBigEndian ==
    Decoded =>
        last.word = ArrayRead(last.pre.memory, last.pre.pc) * 256
                    + ArrayRead(last.pre.memory, last.pre.pc + 1)

\* C6: a cycle executing 3xnn, 4xnn, 5xy0 or 9xy0 moves PC by 4 when its
\* condition holds of the registers it started with, and by 2 otherwise.
C6_SkipDelta ==
    LET vx == last.pre.v[LastX]
        vy == last.pre.v[LastY]
        top == Nibble1(last.word)
        delta(cond) == IF cond THEN 4 ELSE 2
    IN  /\ (Decoded /\ top = 3) =>
              panicked = "none" /\ pc = last.pre.pc + delta(vx = LastNN)
        /\ (Decoded /\ top = 4) =>
              panicked = "none" /\ pc = last.pre.pc + delta(vx # LastNN)
        /\ (Decoded /\ top = 5 /\ Field_n(last.word) = 0) =>
              panicked = "none" /\ pc = last.pre.pc + delta(vx = vy)
        /\ (Decoded /\ top = 9 /\ Field_n(last.word) = 0) =>
              panicked = "none" /\ pc = last.pre.pc + delta(vx # vy)

C6_Witness ==
    /\ Completed /\ Nibble1(last.word) = 4
    /\ last.pre.v[LastX] = 255 /\ LastNN = 0
    /\ pc = last.pre.pc + 4

\* C7: after k completed cycles a timer that started at t is max(t - k, 0):
\* it goes down by 1 per cycle, never below 0, and stays at 0.
C7_TimerCountdown ==
    /\ delay_timer = Max0(boot.delay_timer - done)
    /\ sound_timer = Max0(boot.sound_timer - done)

C7_Witness ==
    /\ done = 2
    /\ boot.delay_timer = 1 /\ delay_timer = 0
    /\ boot.sound_timer = 2 /\ sound_timer = 0

\* C8: for x # F, 7xnn leaves Vx = (Vx + nn) mod 256 and VF as it was; 8xy4
\* leaves Vx = (Vx + Vy) mod 256 and VF = 1 if Vx + Vy > 255, else 0; both
\* move PC by 2.
C8_AddCarry ==
    LET vx == last.pre.v[LastX]
        vy == last.pre.v[LastY]
    IN  /\ (Decoded /\ Nibble1(last.word) = 7 /\ LastX # 15) =>
              /\ panicked = "none"
              /\ v[LastX] = (vx + LastNN) % 256
              /\ v[15] = last.pre.v[15]
              /\ pc = last.pre.pc + 2
        /\ (LastIs8xy(4) /\ LastX # 15) =>
              /\ panicked = "none"
              /\ v[LastX] = (vx + vy) % 256
              /\ v[15] = (IF vx + vy > 255 THEN 1 ELSE 0)
              /\ pc = last.pre.pc + 2

C8_Witness ==
    /\ LastIs8xy(4) /\ Completed
    /\ LastX = 0 /\ LastY = 1
    /\ last.pre.v[0] = 255 /\ last.pre.v[1] = 1 /\ last.pre.v[15] = 0
    /\ v[0] = 0 /\ v[15] = 1

C10_ReverseSubtract ==
    LET vx == last.pre.v[LastX]
        vy == last.pre.v[LastY]
    IN  (LastIs8xy(7) /\ LastX # 15) =>
            /\ panicked = "none"
            /\ v[LastX] = (vy - vx) % 256
            /\ v[15] = (IF vy > vx THEN 1 ELSE 0)

\* C11: a cycle executing 6xnn, for any x including F, leaves Vx = nn, every
\* other register, I, the stack, memory and the framebuffer as they were,
\* and PC moved by exactly 2.
C11_LoadImmFrame ==
    (Decoded /\ Nibble1(last.word) = 6) =>
        /\ panicked = "none"
        /\ v = [last.pre.v EXCEPT ![LastX] = LastNN]
        /\ i = last.pre.i
        /\ stack = last.pre.stack
        /\ memory = last.pre.memory
        /\ gfx = last.pre.gfx
        /\ pc = last.pre.pc + 2

C11_Witness ==
    /\ Completed /\ Nibble1(last.word) = 6
    /\ LastX = 15 /\ LastNN = 128
    /\ last.pre.v[15] = 255 /\ last.pre.v[0] = 1
    /\ v[15] = 128 /\ v[0] = 1

\* The sprite bytes a Dxyn given the word w reads in the Chip8 s
SpriteBytes(s, w) == [k \in 0..(Field_n(w) - 1) |-> ArrayRead(s.memory, s.i + k)]

\* C12: a cycle executing Dxyn completes with PC moved by 2 and I as it
\* was; a second Dxyn right after a first with the same Vx, Vy, n, I and
\* sprite bytes leaves the framebuffer as it was before the first, and
\* VF = 1 when the sprite has a set bit.
C12_DoubleDraw ==
    LET w == last.word
        s2 == last.pre
        same(d) == /\ d.pre.v[Nibble_x(d.word)] = s2.v[Nibble_x(w)]
                   /\ d.pre.v[Nibble_y(d.word)] = s2.v[Nibble_y(w)]
                   /\ Field_n(d.word) = Field_n(w)
                   /\ d.pre.i = s2.i
                   /\ SpriteBytes(d.pre, d.word) = SpriteBytes(s2, w)
    IN  (Decoded /\ Nibble1(w) = 13) =>
            /\ panicked = "none"
            /\ pc = s2.pc + 2
            /\ i = s2.i
            /\ \A d \in {last.drawn_on[k] : k \in DOMAIN last.drawn_on} :
                  same(d) =>
                      /\ gfx = d.pre.gfx
                      /\ (\E k \in DOMAIN SpriteBytes(s2, w) : SpriteBytes(s2, w)[k] # 0)
                            => v[15] = 1

\* C13: in every state reached by executing instructions PC is at most
\* 0xFFF, and no cycle fails reading memory[PC] or memory[PC + 1].
C13_PcIn12Bits ==
    /\ pc <= MemSize - 1
    /\ panicked # IndexPanic

\* C14: before any cycle the machine has PC = 0x200, V0..VF = 0, I = 0,
\* both timers 0, an empty stack, an all-zero framebuffer, no key pressed
\* and the redraw flag lowered; a 2nnn executed as the first cycle leaves
\* the stack holding 0x200 alone.
C14_FreshVm ==
    /\ cycles = 0 =>
          /\ pc = 512
          /\ \A r \in 0..15 : v[r] = 0
          /\ i = 0
          /\ delay_timer = 0 /\ sound_timer = 0
          /\ stack = <<>>
          /\ \A a \in DOMAIN gfx : gfx[a] = 0
          /\ \A k \in 0..15 : key[k] = 0
          /\ draw_flag = FALSE
    /\ (cycles = 1 /\ Decoded /\ Nibble1(last.word) = 2) =>
          /\ panicked = "none"
          /\ stack = <<512>>

C14_Witness ==
    /\ cycles = 1 /\ Completed /\ last.word = Word(2, 3, 0, 0)
    /\ last.pre.pc = 512 /\ last.pre.stack = <<>>
    /\ stack = <<512>> /\ pc = 768

\* C15: a cycle executing Dxyn hands the draw routine the origin (Vx, Vy)
\* and, as the row count, n: the low 4 bits of the word, whatever its y
\* nibble is.
C15_SpriteRows ==
    (Decoded /\ Nibble1(last.word) = 13) =>
        last.handed = <<last.pre.v[LastX], last.pre.v[LastY], Field_n(last.word)>>

\* C16: a cycle executing 00E0 leaves the framebuffer all zero; a cycle
\* executing 00E0 or Dxyn completes with the redraw flag raised and PC moved
\* by 2; a cycle executing any other word leaves the framebuffer as it was.
C16_RedrawSignalling ==
    LET cls == last.word = Word(0, 0, 14, 0)
        drw == Nibble1(last.word) = 13
    IN  /\ (Decoded /\ cls) => \A a \in DOMAIN gfx : gfx[a] = 0
        /\ (Decoded /\ (cls \/ drw)) =>
              /\ panicked = "none"
              /\ draw_flag = TRUE
              /\ pc = last.pre.pc + 2
        /\ (Decoded /\ ~cls /\ ~drw) => gfx = last.pre.gfx

\* The flag an 8xyn computes from the registers pre: the carry of 8xy4, the
\* no-borrow of 8xy5 and 8xy7, the bit shifted out by 8xy6 and 8xyE
FlagOf(n, pre, x, y) ==
    CASE n = 4 -> IF pre[x] + pre[y] > 255 THEN 1 ELSE 0
      [] n = 5 -> IF pre[x] > pre[y] THEN 1 ELSE 0
      [] n = 6 -> pre[x] % 2
      [] n = 7 -> IF pre[y] > pre[x] THEN 1 ELSE 0
      [] n = 14 -> pre[x] \div 128

\* C17: after 8xy4, 8xy5, 8xy6, 8xy7 or 8xyE, for every x and y including
\* x = F, VF is the flag computed from the registers as they were before
\* the instruction.
C17_FlagWins ==
    \A n \in {4, 5, 6, 7, 14} :
        LastIs8xy(n) =>
            /\ panicked = "none"
            /\ v[15] = FlagOf(n, last.pre.v, LastX, LastY)

\* C18: for x # F, 8xy6 leaves VF = Vx mod 2 and Vx = Vx div 2, and 8xyE
\* leaves VF = Vx div 128 and Vx = (2 * Vx) mod 256, Vx being the value
\* before; no other register changes and the result does not depend on Vy;
\* PC moves by 2.
C18_Shifts ==
    LET vx == last.pre.v[LastX]
    IN  /\ (LastIs8xy(6) /\ LastX # 15) =>
              /\ panicked = "none"
              /\ v = [last.pre.v EXCEPT ![LastX] = vx \div 2, ![15] = vx % 2]
              /\ pc = last.pre.pc + 2
        /\ (LastIs8xy(14) /\ LastX # 15) =>
              /\ panicked = "none"
              /\ v = [last.pre.v EXCEPT ![LastX] = (2 * vx) % 256, ![15] = vx \div 128]
              /\ pc = last.pre.pc + 2

C18_Witness ==
    /\ LastIs8xy(6) /\ Completed
    /\ LastX = 0 /\ LastY = 1
    /\ last.pre.v[0] = 255 /\ last.pre.v[1] = 128 /\ last.pre.v[15] = 0
    /\ v[0] = 127 /\ v[1] = 128 /\ v[15] = 1

\* C19: the stack holds, oldest first, the addresses of the 2nnn executed
\* and not yet returned from, so its depth is the number of 2nnn executed
\* minus the number of 00EE executed; a 2nnn pushes the PC it was fetched at
\* and sets PC to nnn; a 00EE on a non-empty stack removes the top entry
\* alone and sets PC to it, the value pushed by the latest 2nnn not yet
\* returned from.
C19_ReturnIsLifo ==
    LET before == last.pre.stack
    IN  /\ Len(stack) = Len(calls)
        /\ \A k \in 1..Len(stack) : stack[k] = calls[k].site
        /\ (Decoded /\ Nibble1(last.word) = 2) =>
              /\ panicked = "none"
              /\ stack = Append(before, last.pre.pc)
              /\ pc = Field_nnn(last.word)
        /\ (Decoded /\ last.word = 238 /\ before # <<>>) =>
              /\ panicked = "none"
              /\ stack = SubSeq(before, 1, Len(before) - 1)
              /\ pc = before[Len(before)]
              /\ pc = last.ret.site

C19_Witness ==
    /\ Completed /\ last.word = 238
    /\ last.pre.stack = <<512, 768>> /\ last.pre.pc = 1280
    /\ stack = <<512>> /\ pc = 768
    /\ done = 3

\* C20: a cycle prints BEEP if and only if it runs to its timer tick (so
\* past its PC transition) with the sound timer at 1, which the tick takes
\* to 0; no BEEP while the timer is 0 or goes down from above 1, so a timer
\* started at t beeps once, in the t-th completed cycle.
C20_ToneEndEdge ==
    /\ last.beeped <=>
          (Completed /\ last.pre.sound_timer = 1 /\ sound_timer = 0)
    /\ beeps = (IF boot.sound_timer >= 1 /\ done >= boot.sound_timer THEN 1 ELSE 0)

C20_Witness ==
    /\ last.beeped /\ beeps = 1
    /\ boot.sound_timer = 2 /\ done = 2
    /\ last.pre.sound_timer = 1 /\ sound_timer = 0
    /\ Nibble1(last.word) = 1 /\ pc = Field_nnn(last.word) /\ pc # last.pre.pc

\* Bit k of the natural a
Bit(a, k) == (a \div Pow2(k)) % 2

\* C21: after Cxnn, with r the byte the generator returned, Vx is r AND nn:
\* bit by bit the product of the bits of r and nn, so no bit clear in nn is
\* set in Vx and Vx = 0 when nn = 0; no other register changes and PC
\* moves by 2.
C21_RandomMask ==
    LET r == last.random_u8
    IN  (Decoded /\ Nibble1(last.word) = 12) =>
            /\ panicked = "none"
            /\ r \in 0..255
            /\ v[LastX] \in 0..255
            /\ \A k \in 0..7 : Bit(v[LastX], k) = Bit(r, k) * Bit(LastNN, k)
            /\ LastNN = 0 => v[LastX] = 0
            /\ \A q \in 0..15 : q # LastX => v[q] = last.pre.v[q]
            /\ pc = last.pre.pc + 2

C21_Witness ==
    /\ Completed /\ Nibble1(last.word) = 12
    /\ LastX = 15 /\ LastNN = 128 /\ last.random_u8 = 255
    /\ last.pre.v[15] = 1 /\ last.pre.v[0] = 255
    /\ v[15] = 128 /\ v[0] = 255

====
